---- MODULE Spec2Model ----
(***************************************************************************)
(* Orchestration layer of the weather collector: the periodic scheduler    *)
(* (fetch_and_store_weather_data), the operator menu (menu), the shared    *)
(* asyncio.Event (stop_event) and the asyncio.gather join in main.         *)
(* One action is one run of a coroutine between two suspension points.     *)
(***************************************************************************)
EXTENDS Integers, Sequences, FiniteSets, TLC

\* ---------------------------------------------------------------- bounds
FREQUENCY == 2      \* period in seconds (utils.py:29 reads it from the environment)
MaxCycles == 2      \* cycles the scheduler may start
MaxInputs == 3      \* lines the operator may type
MaxTime == 1        \* wall clock saturates here (seconds)
MaxAmount == 7      \* largest rain / snowfall amount, in tenths of a millimetre

\* operator input lines, as input() returns them (without the newline)
Inputs == {"1", "2", "3", "11"}

VARIABLES
    stop_event,   \* asyncio.Event flag                         (main.py:30)
    schedPc,      \* position of fetch_and_store_weather_data
    sleepLeft,    \* seconds left of asyncio.sleep(frequency)   (utils.py:58)
    data,         \* local `data` of the scheduler              (utils.py:48)
    cycle,        \* number of fetch cycles started
    sinceStart,   \* seconds since the latest cycle started, counted up to FREQUENCY
    leftAt,       \* where the scheduler left its loop: "while" (line 46) or "break" (line 55)
    store,        \* rows of table weather_data, insertion order
    menuPc,       \* position of menu
    choices,      \* lines read by input() so far
    exportData,   \* local `data` of menu: the rows read for the export (utils.py:80)
    excel,        \* ExcelManager fields workbook/sheet/file_name
    files,        \* spreadsheet files on disk, by file name
    now,          \* wall clock, whole seconds
    supPc,        \* position of main at asyncio.gather
    rain,         \* response["current"]["rain"]               (API_manager.py:77)
    snow,         \* response["current"]["snowfall"]           (API_manager.py:78)
    precip        \* data["type_precipitation"], "" before the conversion

vars == <<stop_event, schedPc, sleepLeft, data, cycle, sinceStart, leftAt, store,
          menuPc, choices, exportData, excel, files, now, supPc,
          rain, snow, precip>>

schedVars == <<schedPc, sleepLeft, data, cycle, sinceStart, leftAt>>
menuVars == <<menuPc, choices, exportData, excel>>
precipVars == <<rain, snow, precip>>

NoData == [ok |-> FALSE, cyc |-> 0]
HEADER == [id |-> 0, cyc |-> 0]
NoFile == <<>>

Min(a, b) == IF a < b THEN a ELSE b

\* ------------------------------------------------------- asyncio.Event
NewEvent == FALSE

EventSetToggle(ev) == ~ev

EventSet(ev) == TRUE

EventIsSet(ev) == ev

\* ------------------------------------------------------------ DataSource
\* get_response_from_openmeteo: the decoded JSON, or None after any caught
\* request error (every except branch only prints).
Response(okResp, n) == [ok |-> okResp, cyc |-> n]

\* convert_data subscripts the response: None raises TypeError.
ConvertRaises(resp) == ~resp.ok

convert_data(resp) == [ok |-> TRUE, cyc |-> resp.cyc]

\* determine_type_precipitation: "snow" is "снег", "rain" is "дождь",
\* "rain and snow" is "дождь и снег", "none" is "отсутствуют"
determine_type_precipitationMixedFirst(precipitation_rain, precipitation_snow) ==
    IF precipitation_rain > 0 /\ precipitation_snow > 0 THEN "rain and snow"
    ELSE IF precipitation_rain > 0 /\ precipitation_snow = 0 THEN "rain"
    ELSE IF precipitation_rain = 0 /\ precipitation_snow > 0 THEN "snow"
    ELSE "none"

determine_type_precipitation(precipitation_rain, precipitation_snow) ==
    IF precipitation_rain > 0 /\ precipitation_snow > 0 THEN "snow"
    ELSE IF precipitation_rain > 0 /\ precipitation_snow = 0 THEN "rain"
    ELSE IF precipitation_rain > 0 /\ precipitation_snow > 0 THEN "rain and snow"
    ELSE "none"

\* ----------------------------------------------------------------- Store
\* add_weather_data: INSERT with an autoincrement primary key.
add_weather_data(st, d) == Append(st, [id |-> Len(st) + 1, cyc |-> d.cyc])

get_all_weather_data(st) == st

\* ------------------------------------------------------------- Scheduler
\* menu waits for input() through run_in_executor: the blocking call runs in
\* a worker thread and the event loop stays free for the scheduler.
EventLoopHeldByInput == menuPc # "input"

EventLoopFree == TRUE

\* `while not stop_event.is_set()`
LoopGuardAlways(ev) == TRUE

LoopGuard(ev) == ~EventIsSet(ev)

\* `except Exception`: catches every Exception subclass; CancelledError is
\* a BaseException and passes through.
CatchesOnlyDb(exc) == exc = "DBError"

Catches(exc) == exc # "CancelledError"

\* lines 54-58: leave the loop when the event is set, else sleep a period.
AfterTryShortSleep ==
    IF EventIsSet(stop_event)
    THEN /\ schedPc' = "done"
         /\ leftAt' = "break"
         /\ sleepLeft' = sleepLeft
    ELSE /\ schedPc' = "sleep"
         /\ leftAt' = leftAt
         /\ sleepLeft' = FREQUENCY - 1

AfterTry ==
    IF EventIsSet(stop_event)
    THEN /\ schedPc' = "done"
         /\ leftAt' = "break"
         /\ sleepLeft' = sleepLeft
    ELSE /\ schedPc' = "sleep"
         /\ leftAt' = leftAt
         /\ sleepLeft' = FREQUENCY

\* an exception raised inside the try block
Raised(exc) ==
    IF Catches(exc)
    THEN AfterTry
    ELSE /\ schedPc' = "failed"
         /\ leftAt' = leftAt
         /\ sleepLeft' = sleepLeft

\* the loop test followed, in the same run, by the call of get_weather_data
WhileTest ==
    IF LoopGuard(stop_event)
    THEN /\ cycle < MaxCycles
         /\ schedPc' = "fetch"
         /\ cycle' = cycle + 1
         /\ sinceStart' = 0
         /\ leftAt' = leftAt
    ELSE /\ schedPc' = "done"
         /\ cycle' = cycle
         /\ sinceStart' = sinceStart
         /\ leftAt' = "while"

SchedStart ==
    /\ supPc = "gather"
    /\ schedPc = "start"
    /\ WhileTest
    /\ UNCHANGED <<stop_event, sleepLeft, data, store, menuVars, files, now, supPc, precipVars>>

\* asyncio.sleep(frequency) returns once the whole period has elapsed
SchedWakeTimerDriven ==
    /\ schedPc \in {"sleep", "persist"}
    /\ sleepLeft = 0
    /\ EventLoopFree
    /\ WhileTest
    /\ UNCHANGED <<stop_event, sleepLeft, data, store, menuVars, files, now, supPc, precipVars>>

SchedWake ==
    /\ schedPc = "sleep"
    /\ sleepLeft = 0
    /\ EventLoopFree
    /\ WhileTest
    /\ UNCHANGED <<stop_event, sleepLeft, data, store, menuVars, files, now, supPc, precipVars>>

\* `data = await weather_api.get_weather_data()` resolves
FetchResolveKeepsStale ==
    /\ schedPc = "fetch"
    /\ EventLoopFree
    /\ \E okResp \in BOOLEAN :
         LET resp == Response(okResp, cycle) IN
         /\ data' = IF ConvertRaises(resp) THEN data ELSE convert_data(resp)
         /\ schedPc' = "persist"
         /\ UNCHANGED <<sleepLeft, leftAt>>
    /\ UNCHANGED <<stop_event, cycle, sinceStart, store, menuVars, files, now, supPc, precipVars>>

FetchResolveChecksSignal ==
    /\ schedPc = "fetch"
    /\ EventLoopFree
    /\ \E okResp \in BOOLEAN :
         LET resp == Response(okResp, cycle) IN
         IF ConvertRaises(resp)
         THEN /\ Raised("TypeError")
              /\ data' = data
         ELSE /\ data' = convert_data(resp)
              /\ IF EventIsSet(stop_event)
                 THEN AfterTry
                 ELSE /\ schedPc' = "persist"
                      /\ UNCHANGED <<sleepLeft, leftAt>>
    /\ UNCHANGED <<stop_event, cycle, sinceStart, store, menuVars, files, now, supPc, precipVars>>

FetchResolve ==
    /\ schedPc = "fetch"
    /\ EventLoopFree
    /\ \E okResp \in BOOLEAN :
         LET resp == Response(okResp, cycle) IN
         IF ConvertRaises(resp)
         THEN /\ Raised("TypeError")
              /\ data' = data
         ELSE /\ data' = convert_data(resp)
              /\ schedPc' = "persist"
              /\ UNCHANGED <<sleepLeft, leftAt>>
    /\ UNCHANGED <<stop_event, cycle, sinceStart, store, menuVars, files, now, supPc, precipVars>>

\* `await db_manager.add_weather_data(data)` resolves
PersistResolve ==
    /\ schedPc = "persist"
    /\ EventLoopFree
    /\ \E okDb \in BOOLEAN :
         IF okDb
         THEN /\ store' = add_weather_data(store, data)
              /\ AfterTry
         ELSE /\ store' = store
              /\ Raised("DBError")
    /\ UNCHANGED <<stop_event, data, cycle, sinceStart, menuVars, files, now, supPc, precipVars>>

\* one second passes; a pending asyncio.sleep counts down
Tick ==
    /\ \/ now < MaxTime
       \/ schedPc = "sleep" /\ sleepLeft > 0
    /\ now' = Min(now + 1, MaxTime)
    /\ sleepLeft' = IF schedPc = "sleep" /\ sleepLeft > 0 THEN sleepLeft - 1 ELSE sleepLeft
    /\ sinceStart' = IF cycle >= 1 THEN Min(sinceStart + 1, FREQUENCY) ELSE sinceStart
    /\ UNCHANGED <<stop_event, schedPc, data, cycle, leftAt, store, menuVars, files, supPc, precipVars>>

\* ------------------------------------------------------------ ControlLoop
\* the if / elif / else of menu: comparison of the whole string
ClassifyRestQuits(choice) ==
    IF choice = "1" THEN "export" ELSE "quit"

Classify(choice) ==
    IF choice = "1" THEN "export"
    ELSE IF choice = "2" THEN "quit"
    ELSE "invalid"

\* only the quit branch calls stop_event.set()
MenuSignalAlsoInvalid(kind, ev) ==
    IF kind \in {"quit", "invalid"} THEN EventSet(ev) ELSE ev

MenuSignalNever(kind, ev) == ev

MenuSignal(kind, ev) ==
    IF kind = "quit" THEN EventSet(ev) ELSE ev

\* ExcelManager.create_filename: the clock at one-second resolution
create_filename(t) == t

\* create_excel_file up to its `await asyncio.sleep(0)`
NewWorkbookReuse(t) ==
    [workbook |-> TRUE,
     sheet |-> IF excel.workbook THEN excel.sheet ELSE <<HEADER>>,
     file_name |-> create_filename(t)]

NewWorkbook(t) == [workbook |-> TRUE, sheet |-> <<HEADER>>, file_name |-> create_filename(t)]

\* add_weather_data_to_excel: rows go below sheet.max_row
AddRows(sheet, rows) == sheet \o rows

\* workbook.save(file_name)
Save(fs, xl) == [fs EXCEPT ![xl.file_name] = xl.sheet]

\* menu runs to its first `await run_in_executor(None, input, ...)`;
\* gather starts the scheduler task first.
MenuStart ==
    /\ supPc = "gather"
    /\ menuPc = "start"
    /\ schedPc # "start"
    /\ menuPc' = "input"
    /\ UNCHANGED <<stop_event, schedVars, store, choices, exportData, excel, files, now, supPc, precipVars>>

\* input() returns a line; the branch runs to its next suspension point
MenuInput ==
    /\ menuPc = "input"
    /\ Len(choices) < MaxInputs
    /\ \E choice \in Inputs :
         LET kind == Classify(choice) IN
         /\ choices' = Append(choices, choice)
         /\ stop_event' = MenuSignal(kind, stop_event)
         /\ excel' = IF kind = "export" THEN NewWorkbook(now) ELSE excel
         /\ menuPc' = CASE kind = "export" -> "create"
                        [] kind = "quit" -> "done"
                        [] OTHER -> "input"
    /\ UNCHANGED <<schedVars, store, exportData, files, now, supPc, precipVars>>

\* input() raises (EOFError on a closed stdin): nothing in menu catches it
MenuInputFails ==
    /\ menuPc = "input"
    /\ menuPc' = "failed"
    /\ UNCHANGED <<stop_event, schedVars, store, choices, exportData, excel, files, now, supPc, precipVars>>

\* create_excel_file after its sleep(0): workbook.save, then menu calls
\* get_all_weather_data and suspends in it
CreateSave ==
    /\ menuPc = "create"
    /\ \E okSave \in BOOLEAN :
         IF okSave
         THEN /\ files' = Save(files, excel)
              /\ menuPc' = "read"
         ELSE /\ files' = files
              /\ menuPc' = "failed"
    /\ UNCHANGED <<stop_event, schedVars, store, choices, exportData, excel, now, supPc, precipVars>>

\* the SELECT of get_all_weather_data resolves; the coroutine then suspends
\* again while its `async with` block closes the session
ReadResolve ==
    /\ menuPc = "read"
    /\ \E okRead \in BOOLEAN :
         IF okRead
         THEN /\ exportData' = get_all_weather_data(store)
              /\ menuPc' = "close"
         ELSE /\ exportData' = exportData
              /\ menuPc' = "failed"
    /\ UNCHANGED <<stop_event, schedVars, store, choices, excel, files, now, supPc, precipVars>>

\* the session is closed, get_all_weather_data returns; menu calls
\* add_weather_data_to_excel, which runs to its sleep(0)
WriteRowsRereads ==
    /\ menuPc = "close"
    /\ excel.workbook
    /\ excel' = [excel EXCEPT !.sheet = AddRows(excel.sheet, get_all_weather_data(store))]
    /\ files' = Save(files, excel')
    /\ menuPc' = "write"
    /\ UNCHANGED <<stop_event, schedVars, store, choices, exportData, now, supPc, precipVars>>

WriteRows ==
    /\ menuPc = "close"
    /\ \E okSave \in BOOLEAN :
         IF ~excel.workbook
         THEN /\ menuPc' = "failed"
              /\ UNCHANGED <<excel, files>>
         ELSE LET xl == [excel EXCEPT !.sheet = AddRows(excel.sheet, exportData)] IN
              /\ excel' = xl
              /\ IF okSave
                 THEN /\ files' = Save(files, xl)
                      /\ menuPc' = "write"
                 ELSE /\ files' = files
                      /\ menuPc' = "failed"
    /\ UNCHANGED <<stop_event, schedVars, store, choices, exportData, now, supPc, precipVars>>

\* back from add_weather_data_to_excel: print, next prompt
ExportDone ==
    /\ menuPc = "write"
    /\ menuPc' = "input"
    /\ UNCHANGED <<stop_event, schedVars, store, choices, exportData, excel, files, now, supPc, precipVars>>

\* ------------------------------------------------------------- Supervisor
Finished(pc) == pc \in {"done", "failed", "cancelled"}

\* asyncio.gather(a, b) without return_exceptions: its result is set when
\* both awaitables have finished ...
GatherReturn ==
    /\ supPc = "gather"
    /\ schedPc = "done"
    /\ menuPc = "done"
    /\ supPc' = "returned"
    /\ UNCHANGED <<stop_event, schedVars, store, menuVars, files, now, precipVars>>

\* ... and the first exception of either is raised in main at once, the
\* other awaitable is left running.
GatherRaise ==
    /\ supPc = "gather"
    /\ \/ menuPc = "failed"
       \/ schedPc = "failed"
    /\ supPc' = "raised"
    /\ UNCHANGED <<stop_event, schedVars, store, menuVars, files, now, precipVars>>

\* asyncio.run(main()): after main raised, the tasks still pending are
\* cancelled; CancelledError is not caught by `except Exception`.
RunCancel ==
    /\ supPc = "raised"
    /\ ~Finished(schedPc) \/ ~Finished(menuPc)
    /\ ~Catches("CancelledError")
    /\ schedPc' = IF Finished(schedPc) THEN schedPc ELSE "cancelled"
    /\ menuPc' = IF Finished(menuPc) THEN menuPc ELSE "cancelled"
    /\ UNCHANGED <<stop_event, sleepLeft, data, cycle, sinceStart, leftAt, store, choices, exportData, excel, files, now, supPc, precipVars>>

\* ---------------------------------------------------------- specification
Init ==
    /\ stop_event = NewEvent
    /\ schedPc = "start"
    /\ sleepLeft = 0
    /\ data = NoData
    /\ cycle = 0
    /\ sinceStart = 0
    /\ leftAt = ""
    /\ store = <<>>
    /\ menuPc = "start"
    /\ choices = <<>>
    /\ exportData = <<>>
    /\ excel = [workbook |-> FALSE, sheet |-> <<>>, file_name |-> 0]
    /\ files = [t \in 0..MaxTime |-> NoFile]
    /\ now = 0
    /\ supPc = "gather"
    /\ rain = 0
    /\ snow = 0
    /\ precip = ""

Next ==
    \/ SchedStart
    \/ SchedWake
    \/ FetchResolve
    \/ PersistResolve
    \/ Tick
    \/ MenuStart
    \/ MenuInput
    \/ MenuInputFails
    \/ CreateSave
    \/ ReadResolve
    \/ WriteRows
    \/ ExportDone
    \/ GatherReturn
    \/ GatherRaise
    \/ RunCancel

Spec == Init /\ [][Next]_vars

\* every collaborator call returns, timers expire, ready tasks are run
Fairness ==
    /\ WF_vars(SchedStart)
    /\ WF_vars(SchedWake)
    /\ WF_vars(FetchResolve)
    /\ WF_vars(PersistResolve)
    /\ WF_vars(Tick)
    /\ WF_vars(MenuStart)
    /\ WF_vars(CreateSave)
    /\ WF_vars(ReadResolve)
    /\ WF_vars(WriteRows)
    /\ WF_vars(ExportDone)
    /\ WF_vars(GatherReturn)
    /\ WF_vars(GatherRaise)
    /\ WF_vars(RunCancel)

SpecLive == Spec /\ Fairness

\* ------------------------------------------- precipitation kind, on its own
\* amounts the API can report: non-negative, here in tenths of a millimetre
Amounts == 0..MaxAmount

InitPrecip ==
    /\ stop_event = NewEvent
    /\ schedPc = "start"
    /\ sleepLeft = 0
    /\ data = NoData
    /\ cycle = 0
    /\ sinceStart = 0
    /\ leftAt = ""
    /\ store = <<>>
    /\ menuPc = "start"
    /\ choices = <<>>
    /\ exportData = <<>>
    /\ excel = [workbook |-> FALSE, sheet |-> <<>>, file_name |-> 0]
    /\ files = [t \in 0..MaxTime |-> NoFile]
    /\ now = 0
    /\ supPc = "gather"
    /\ rain \in Amounts
    /\ snow \in Amounts
    /\ precip = ""

\* convert_data, line 79
DeterminePrecip ==
    /\ precip = ""
    /\ precip' = determine_type_precipitation(rain, snow)
    /\ UNCHANGED <<stop_event, schedVars, store, menuVars, files, now, supPc, rain, snow>>

NextPrecip == DeterminePrecip

SpecPrecip == InitPrecip /\ [][NextPrecip]_vars

TypeOK ==
    /\ stop_event \in BOOLEAN
    /\ schedPc \in {"start", "fetch", "persist", "sleep", "done", "failed", "cancelled"}
    /\ sleepLeft \in 0..FREQUENCY
    /\ cycle \in 0..MaxCycles
    /\ sinceStart \in 0..FREQUENCY
    /\ leftAt \in {"", "while", "break"}
    /\ Len(store) <= cycle
    /\ menuPc \in {"start", "input", "create", "read", "close", "write", "done", "failed", "cancelled"}
    /\ Len(choices) <= MaxInputs
    /\ now \in 0..MaxTime
    /\ supPc \in {"gather", "returned", "raised"}

\* ================================================================ claims

Last(seq) == seq[Len(seq)]

ExportFiles == {t \in 0..MaxTime : files[t] # NoFile}

\* C1: when the shutdown signal is raised while the Scheduler is suspended
\* in its inter-cycle sleep, the sleep is interrupted: no further part of
\* the period is waited out once the signal is raised.
C1_SleepInterrupted ==
    [][((stop_event /\ schedPc = "sleep" /\ sleepLeft > 0)
          => ~(schedPc' = "sleep" /\ sleepLeft' < sleepLeft))]_vars

\* C2: once the shutdown signal is raised the Scheduler starts no new fetch
\* cycle: from the loop test (at start or waking from the sleep) and from
\* the end of a cycle its next step is to exit; a cycle already in flight
\* may only go on from its fetch to its persist step.
C2_NoNewCycleAfterSignal ==
    [][(stop_event =>
          /\ cycle' = cycle
          /\ (schedPc' # schedPc) =>
                (\/ schedPc' = "done"
                 \/ schedPc = "fetch" /\ schedPc' = "persist"))]_vars

C2_Witness ==
    /\ stop_event
    /\ schedPc = "done"
    /\ leftAt = "while"
    /\ cycle >= 1
    /\ cycle < MaxCycles

\* C3: a failing export (creating the target, reading the Store or writing
\* the records) leaves the ControlLoop inside its loop and does not raise
\* the shutdown signal.
C3_ExportFailureStaysInLoop ==
    [][(menuPc \in {"create", "read", "close"}
          => /\ menuPc' \in {"create", "read", "close", "write", "input"}
             /\ stop_event' = stop_event)]_vars

\* C4: whenever the ControlLoop task has ended, for any reason, the shutdown
\* signal has been raised.
C4_EndedImpliesRaised ==
    Finished(menuPc) => stop_event

\* C5: the join in main has completed only when both the Scheduler task and
\* the ControlLoop task have exited, also when a task ended with an error.
C5_JoinAfterBothExited ==
    supPc # "gather" => Finished(schedPc) /\ Finished(menuPc)

\* C6: a failure of the fetch or of the Store append is caught inside its
\* cycle and never terminates the Scheduler: with the signal not raised the
\* failed cycle is followed by a full period of sleep, and the Scheduler's
\* step out of that sleep, taken when the period has elapsed, starts the
\* next cycle.
C6_CycleFailureIsolated ==
    [][(/\ schedPc' # "failed"
        /\ ((/\ ~stop_event
             /\ \/ schedPc = "fetch" /\ schedPc' \notin {"fetch", "persist", "cancelled"}
                \/ schedPc = "persist" /\ schedPc' \notin {"persist", "cancelled"} /\ store' = store)
            => (schedPc' = "sleep" /\ sleepLeft' = FREQUENCY /\ cycle' = cycle))
        /\ ((~stop_event /\ schedPc = "sleep" /\ schedPc' \notin {"sleep", "cancelled"})
            => (sleepLeft = 0 /\ schedPc' = "fetch" /\ cycle' = cycle + 1)))]_vars

C6_Witness ==
    /\ ~stop_event
    /\ schedPc = "sleep"
    /\ sleepLeft = FREQUENCY
    /\ cycle >= 2
    /\ store = <<>>

\* C7: the ControlLoop treats exactly "1" as export and exactly "2" as quit;
\* any other line is rejected with a re-prompt and changes neither the
\* Store, the export files, the workbook nor the shutdown signal. After the
\* lines "1", "3", "2" one export file exists, the signal is raised and the
\* ControlLoop has ended.
C7_CommandGrammar ==
    /\ [][((choices' # choices) =>
             LET c == Last(choices') IN
             /\ store' = store
             /\ (c = "1") =>
                   (/\ menuPc' = "create"
                    /\ excel'.workbook
                    /\ excel'.sheet = <<HEADER>>
                    /\ UNCHANGED <<files, stop_event>>)
             /\ (c = "2") =>
                   (/\ menuPc' = "done"
                    /\ stop_event'
                    /\ UNCHANGED <<files, excel>>)
             /\ (c \notin {"1", "2"}) =>
                   (/\ menuPc' = "input"
                    /\ UNCHANGED <<files, excel, stop_event>>))]_vars
    /\ [](choices = <<"1", "3", "2">> =>
             /\ menuPc = "done"
             /\ stop_event
             /\ Cardinality(ExportFiles) = 1)

C7_Witness ==
    /\ choices = <<"1", "3", "2">>
    /\ menuPc = "done"
    /\ Cardinality(ExportFiles) = 1

\* C8: the shutdown signal is a boolean that starts active (not raised),
\* stays raised once raised, and raising it when it is raised leaves it
\* raised.
C8_SignalMonotone ==
    /\ ~stop_event
    /\ [][(stop_event => (stop_event' = TRUE))]_vars
    /\ [](/\ stop_event \in BOOLEAN
          /\ stop_event => EventSet(stop_event) = stop_event)

C8_Witness ==
    /\ stop_event
    /\ schedPc = "done"
    /\ supPc = "returned"

\* C9: the only step that takes the shutdown signal from active to raised
\* is the ControlLoop's quit: it reads the line "2" and ends the loop.
C9_OnlyQuitRaises ==
    [][((~stop_event /\ stop_event')
          => /\ menuPc = "input"
             /\ menuPc' = "done"
             /\ choices' = Append(choices, "2")
             /\ UNCHANGED <<schedVars, store, files, supPc>>)]_vars

C9_Witness ==
    /\ stop_event
    /\ menuPc = "done"
    /\ Last(choices) = "2"
    /\ schedPc = "sleep"

\* C10: after the quit command the ControlLoop has exited and, every
\* pending call returning and the sleep timer expiring, the Scheduler
\* eventually exits and the join in main eventually returns.
C10_QuitTerminates ==
    (menuPc = "done") ~> (schedPc = "done" /\ supPc = "returned")

C10_Witness ==
    /\ menuPc = "done"
    /\ schedPc = "done"
    /\ supPc = "returned"
    /\ leftAt = "break"

\* C11: the start of a cycle is at least the period after the start of the
\* cycle before it, whatever the cycle before it took.
C11_PeriodBetweenStarts ==
    [][((cycle' = cycle + 1 /\ cycle >= 1) => sinceStart >= FREQUENCY)]_vars

C11_Witness ==
    /\ cycle = 2
    /\ schedPc = "fetch"
    /\ sinceStart = 0
    /\ Len(store) = 1

IsPrefix(p, q) == Len(p) <= Len(q) /\ \A i \in 1..Len(p) : p[i] = q[i]

\* C12: the file of a completed export holds the header row followed by
\* exactly the rows the Store returned for that export, in the Store's
\* order (the header alone for an empty Store); nothing of an earlier export
\* is in it.
C12_FileIsHeaderPlusRead ==
    menuPc = "write" => files[excel.file_name] = <<HEADER>> \o exportData

C12_Witness ==
    /\ menuPc = "write"
    /\ choices = <<"1", "1">>
    /\ Len(exportData) >= 1
    /\ \E t \in 0..MaxTime : t # excel.file_name /\ Len(files[t]) >= 2

\* C13: Scheduler cycles are strictly sequential: a cycle starts only from
\* the loop test (at the start or after the sleep), never while the fetch or
\* the persist step of the cycle before it is pending, and while a cycle is
\* in flight the Store holds records of earlier cycles only.
C13_CyclesSequential ==
    /\ [][((cycle' # cycle) =>
             (/\ cycle' = cycle + 1
              /\ schedPc \in {"start", "sleep"}
              /\ schedPc' = "fetch"))]_vars
    /\ [](schedPc \in {"fetch", "persist"} =>
             \A i \in 1..Len(store) : store[i].cyc < cycle)

C13_Witness ==
    /\ cycle = 2
    /\ schedPc = "persist"
    /\ Len(store) = 1
    /\ store[1].cyc = 1

\* C14: raising the shutdown signal does not abort a cycle in flight: a
\* fetch that returned a record is always followed by the persist step, and
\* with the signal raised the Scheduler leaves a pending persist only by
\* that call resolving (the record appended, or the append failed) and then
\* exits at the check after the cycle.
C14_InFlightCycleCompletes ==
    [][(/\ (schedPc = "fetch" /\ data' # data) => schedPc' = "persist"
        /\ (stop_event /\ schedPc = "persist" /\ schedPc' # "persist") =>
              (/\ schedPc' = "done"
               /\ leftAt' = "break"
               /\ store' \in {store, add_weather_data(store, data)}))]_vars

C14_Witness ==
    /\ stop_event
    /\ schedPc = "done"
    /\ leftAt = "break"
    /\ Len(store) >= 1
    /\ store[Len(store)].cyc = cycle

\* C15: the ControlLoop waiting for operator input never blocks the
\* Scheduler: in a run where the prompt stays pending for ever, every cycle
\* up to MaxCycles eventually starts; and no step of the Scheduler, failed
\* cycles included, takes the pending prompt away.
C15_InputNeverBlocksScheduler ==
    /\ []<>(menuPc # "input" \/ cycle = MaxCycles)
    /\ [][((menuPc = "input" /\ (schedPc' # schedPc \/ store' # store))
             => menuPc' = "input")]_vars

C15_Witness ==
    /\ menuPc = "input"
    /\ choices = <<>>
    /\ schedPc = "sleep"
    /\ cycle = MaxCycles
    /\ store = <<>>

\* C16: the rows an export writes are the Store's contents at its read
\* call: the write uses the rows read, also when the Scheduler appended a
\* record between the read and the write, and the data rows of every export
\* file are a prefix of the Store's insertion sequence.
C16_ExportIsSnapshotOfRead ==
    /\ [][(/\ (menuPc = "read" /\ menuPc' = "close") => exportData' = store
           /\ (menuPc = "close" /\ menuPc' = "write") =>
                 files'[excel'.file_name] = <<HEADER>> \o exportData)]_vars
    /\ [](\A t \in 0..MaxTime :
             files[t] # NoFile => IsPrefix(Tail(files[t]), store))

\* the read has returned, a record was appended since, the write is pending
C16_Witness ==
    /\ menuPc = "close"
    /\ Len(exportData) < Len(store)
    /\ IsPrefix(exportData, store)

\* C17: the Store grows only by the persist step of a cycle whose fetch
\* returned a record, by exactly that one record; a cycle whose fetch failed
\* appends nothing, no cycle appends twice, and no step of the ControlLoop
\* changes the Store.
C17_StoreGrowsOnePerGoodCycle ==
    /\ [][((store' # store) =>
             (/\ schedPc = "persist"
              /\ data.ok
              /\ data.cyc = cycle
              /\ store' = Append(store, [id |-> Len(store) + 1, cyc |-> cycle])
              /\ UNCHANGED menuVars))]_vars
    /\ [](\A i \in 1..Len(store) :
             /\ store[i].id = i
             /\ store[i].cyc \in 1..cycle
             /\ \A j \in 1..Len(store) : i < j => store[i].cyc < store[j].cyc)

C17_Witness ==
    /\ cycle = 2
    /\ schedPc = "sleep"
    /\ Len(store) = 1
    /\ store[1].cyc = 2

\* C18: each export writes to a newly created target: when an export
\* starts, no file of the name it takes exists yet, so no export overwrites
\* the file of an earlier one. (Seconds before MaxTime only: the model's
\* clock stands still once it reaches MaxTime.)
C18_ExportTargetIsNew ==
    [][((menuPc = "input" /\ menuPc' = "create" /\ now < MaxTime)
          => files[excel'.file_name] = NoFile)]_vars

====
